---------------------------- MODULE Spec2Model ----------------------------
(***************************************************************************)
(* Model of src/undoredo/undoredo.cpp: a text buffer with a weight-bounded *)
(* undo stack (WeightedUndoStack, evicting from the bottom) and an         *)
(* unbounded LIFO redo stack (RedoStack), driven by the command loop of    *)
(* main.  A text is a sequence of one-character strings.  The doubly       *)
(* linked list bottom_ ... top_ is the sequence undoStack (bottom_ first), *)
(* the singly linked list from head_ is the sequence redoStack (head_      *)
(* first).  One step of the model is one iteration of main's while loop.   *)
(***************************************************************************)
EXTENDS Integers, Sequences, FiniteSets, TLC

(* ------------------------------ bounds --------------------------------- *)
\* Most APPEND/REPLACE/DELETE commands processed after one CREATE.
MaxEdits == 2

VARIABLES
    current,        \* main: std::string current (the buffer)
    created,        \* main: bool created
    maxWeight,      \* main: int maxWeight (raw capacity of the last CREATE)
    undoStack,      \* WeightedUndoStack: the nodes, bottom_ first, top_ last
    totalWeight_,   \* WeightedUndoStack::totalWeight_
    maxWeight_,     \* WeightedUndoStack::maxWeight_
    redoStack,      \* RedoStack: the nodes, head_ first
    pc,             \* "running", or "terminated" after an uncaught exception
    out,            \* what the last line wrote to std::cout
    line,           \* history: the tokens (args) of the last line processed
    lastAct,        \* history: the Action the last line created or moved
    evicted,        \* history: ids of the Actions the last line's trim deleted
    clamped,        \* history: the last line's pop or trim raised a negative totalWeight_ to 0
    cleared,        \* history: number of nodes the last line's clear() calls deleted
    pre,            \* history: the program state before the last line (none after CREATE)
    nMut,           \* history: mutating commands processed since the last CREATE
    initText,       \* history: the text of the last CREATE
    phase,          \* history: "mut" (only edits since CREATE), "undo" (then only UNDOs), "other"
    nUndo,          \* history: UNDO commands issued in phase "undo"
    sumW,           \* history: summed weight of the edits while phase is "mut"/"undo"
    hist            \* history: the buffer before each edit while phase is "mut"/"undo"

vars == <<current, created, maxWeight, undoStack, totalWeight_, maxWeight_,
          redoStack, pc, out, line, lastAct, evicted, clamped, cleared, pre,
          nMut, initText, phase, nUndo, sumW, hist>>

(* ------------------------------ texts ---------------------------------- *)
Digits == <<"0", "1", "2", "3", "4", "5", "6", "7", "8", "9">>

IsDigit(c) == \E i \in 1..Len(Digits) : Digits[i] = c

DigitVal(c) == (CHOOSE i \in 1..Len(Digits) : Digits[i] = c) - 1

\* Number of leading characters of t that are digits.
RECURSIVE LeadingDigits(_)
LeadingDigits(t) ==
    IF t # <<>> /\ IsDigit(Head(t)) THEN 1 + LeadingDigits(Tail(t)) ELSE 0

\* Number of leading blanks of t.
RECURSIVE LeadingSpaces(_)
LeadingSpaces(t) ==
    IF t # <<>> /\ Head(t) = " " THEN 1 + LeadingSpaces(Tail(t)) ELSE 0

\* Value of the digit string t read left to right, starting from acc.
RECURSIVE DecimalValue(_, _)
DecimalValue(t, acc) ==
    IF t = <<>> THEN acc ELSE DecimalValue(Tail(t), 10 * acc + DigitVal(Head(t)))

\* std::stoi: skips blanks, reads an optional sign and the longest run of
\* digits, ignores what follows; throws (ok = FALSE) when there is no digit
\* or the value does not fit an int.
Stoi(tok) ==
    LET t1   == SubSeq(tok, LeadingSpaces(tok) + 1, Len(tok))
        sgn  == t1 # <<>> /\ Head(t1) \in {"-", "+"}
        t2   == IF sgn THEN Tail(t1) ELSE t1
        n    == LeadingDigits(t2)
        mag  == DecimalValue(SubSeq(t2, 1, n), 0)
        v    == IF sgn /\ Head(t1) = "-" THEN 0 - mag ELSE mag
    IN  IF n = 0 \/ v > 2147483647 \/ v < 0 - 2147483647 - 1
        THEN [ok |-> FALSE, val |-> 0]
        ELSE [ok |-> TRUE, val |-> v]

(* ------------------------------ Action --------------------------------- *)
\* struct Action {prev, next, weight}; id is history: the number, since the
\* last CREATE, of the mutating command that created the Action.
Action(p, n, w, i) == [prev |-> p, next |-> n, weight |-> w, id |-> i]

\* "No Action": the last line created or moved none.
NoAct == [prev |-> <<>>, next |-> <<>>, weight |-> 0 - 1, id |-> 0]


(* ------------------------- WeightedUndoStack --------------------------- *)
\* The operations take and return a state record s, of which they read and
\* write the fields undoStack, totalWeight_, maxWeight_ (and the history
\* field evicted).

\* Faulty variant of trimLoop: an if instead of the while, so at most one
\* node is deleted.
trimOnce(s) ==
    IF s.undoStack # <<>> /\ s.totalWeight_ > s.maxWeight_
    THEN LET b == Head(s.undoStack)
         IN  [s EXCEPT !.totalWeight_ = @ - b.weight,
                       !.undoStack = Tail(@),
                       !.evicted = @ \cup {b.id}]
    ELSE s

\* Faulty variant of trimLoop: evicts at the cap already (>= for >).
RECURSIVE trimAtCap(_)
trimAtCap(s) ==
    IF s.undoStack # <<>> /\ s.totalWeight_ >= s.maxWeight_
    THEN LET b == Head(s.undoStack)
         IN  trimAtCap([s EXCEPT !.totalWeight_ = @ - b.weight,
                                 !.undoStack = Tail(@),
                                 !.evicted = @ \cup {b.id}])
    ELSE s

\* Faulty variant of trimLoop: the last remaining node is never deleted.
RECURSIVE trimKeepsLast(_)
trimKeepsLast(s) ==
    IF Len(s.undoStack) > 1 /\ s.totalWeight_ > s.maxWeight_
    THEN LET b == Head(s.undoStack)
         IN  trimKeepsLast([s EXCEPT !.totalWeight_ = @ - b.weight,
                                     !.undoStack = Tail(@),
                                     !.evicted = @ \cup {b.id}])
    ELSE s

\* Faulty variant of trimLoop: once over the cap, every node is deleted.
trimDropsAll(s) ==
    IF s.undoStack # <<>> /\ s.totalWeight_ > s.maxWeight_
    THEN [s EXCEPT !.totalWeight_ = 0,
                   !.undoStack = <<>>,
                   !.evicted = @ \cup {s.undoStack[i].id :
                                           i \in 1..Len(s.undoStack)}]
    ELSE s

\* The while loop of trim: delete bottom_ while the stack is non-empty and
\* over the cap.
RECURSIVE trimLoop(_)
trimLoop(s) ==
    IF s.undoStack # <<>> /\ s.totalWeight_ > s.maxWeight_
    THEN LET b == Head(s.undoStack)
         IN  trimLoop([s EXCEPT !.totalWeight_ = @ - b.weight,
                                !.undoStack = Tail(@),
                                !.evicted = @ \cup {b.id}])
    ELSE s

\* WeightedUndoStack::trim: the loop, then the clamp of totalWeight_ at 0.
trim(s) ==
    LET r == trimLoop(s)
    IN  IF r.totalWeight_ < 0
        THEN [r EXCEPT !.totalWeight_ = 0, !.clamped = TRUE]
        ELSE r

\* Faulty variant of setMaxWeight: a negative cap is not raised to 0.
setMaxWeightNoClamp(s, mw) == trim([s EXCEPT !.maxWeight_ = mw])

\* WeightedUndoStack::setMaxWeight
setMaxWeight(s, mw) ==
    trim([s EXCEPT !.maxWeight_ = IF mw < 0 THEN 0 ELSE mw])

\* Faulty variant of clear: totalWeight_ is not reset.
clearKeepsWeight(s) ==
    [s EXCEPT !.undoStack = <<>>, !.cleared = @ + Len(s.undoStack)]

\* WeightedUndoStack::clear
WeightedUndoStack_clear(s) ==
    [s EXCEPT !.undoStack = <<>>, !.totalWeight_ = 0,
              !.cleared = @ + Len(s.undoStack)]

\* WeightedUndoStack::empty
WeightedUndoStack_empty(s) == s.undoStack = <<>>

\* Faulty variant of push: totalWeight_ is not increased.
pushForgetsWeight(s, a) == trim([s EXCEPT !.undoStack = Append(@, a)])

\* Faulty variant of push: the node is linked at bottom_ instead of top_.
pushAtBottom(s, a) ==
    trim([s EXCEPT !.undoStack = <<a>> \o @,
                   !.totalWeight_ = @ + a.weight])

\* WeightedUndoStack::push
WeightedUndoStack_push(s, a) ==
    trim([s EXCEPT !.undoStack = Append(@, a),
                   !.totalWeight_ = @ + a.weight])

\* Faulty variant of pop: totalWeight_ is not reduced.
popKeepsWeight(s) ==
    LET n == Len(s.undoStack)
    IN  [st |-> [s EXCEPT !.undoStack = SubSeq(@, 1, n - 1)],
         a  |-> s.undoStack[n]]

\* WeightedUndoStack::pop (called on a non-empty stack only): the state
\* after it, and the Action it returns.
WeightedUndoStack_pop(s) ==
    LET n  == Len(s.undoStack)
        a  == s.undoStack[n]
        tw == s.totalWeight_ - a.weight
    IN  [st |-> [s EXCEPT !.undoStack = SubSeq(@, 1, n - 1),
                          !.totalWeight_ = IF tw < 0 THEN 0 ELSE tw,
                          !.clamped = @ \/ tw < 0],
         a  |-> a]

(* ------------------------------ RedoStack ------------------------------ *)
\* RedoStack::clear
RedoStack_clear(s) ==
    [s EXCEPT !.redoStack = <<>>, !.cleared = @ + Len(s.redoStack)]

\* RedoStack::empty
RedoStack_empty(s) == s.redoStack = <<>>

\* Faulty variant of RedoStack::push: the node is linked at the far end.
redoPushAtEnd(s, a) == [s EXCEPT !.redoStack = Append(@, a)]

\* RedoStack::push
RedoStack_push(s, a) == [s EXCEPT !.redoStack = <<a>> \o @]

\* RedoStack::pop (called on a non-empty stack only)
RedoStack_pop(s) ==
    [st |-> [s EXCEPT !.redoStack = Tail(@)], a |-> Head(s.redoStack)]

(* ----------------------- history bookkeeping --------------------------- *)
\* The command name of a line (args[0]); "" for a line without tokens.
Cmd(args) == IF args = <<>> THEN "" ELSE args[1]

\* Nothing written to std::cout.
NoOut == [kind |-> "none", msg |-> "", buf |-> <<>>]

\* The command of the last line if it created or moved an Action, else "".
MovedBy(s) == IF s.lastAct # NoAct THEN Cmd(s.line) ELSE ""

\* The program state kept as "the state before the last line"; cmd is the
\* command that led to it, if that command created or moved an Action.
Core(s) ==
    [current |-> s.current, created |-> s.created, maxWeight |-> s.maxWeight,
     undoStack |-> s.undoStack, totalWeight_ |-> s.totalWeight_,
     maxWeight_ |-> s.maxWeight_, redoStack |-> s.redoStack,
     cmd |-> MovedBy(s)]

\* The state before any line is read (lines 138-143); also what pre holds
\* right after a CREATE, which starts a new history.
InitCore ==
    [current |-> <<>>, created |-> FALSE, maxWeight |-> 0, undoStack |-> <<>>,
     totalWeight_ |-> 0, maxWeight_ |-> 0, redoStack |-> <<>>, cmd |-> ""]

\* History at the start of a loop iteration that reads the tokens args.
Begin(s, args) ==
    [s EXCEPT !.out = NoOut, !.line = args, !.lastAct = NoAct,
              !.evicted = {}, !.clamped = FALSE, !.cleared = 0,
              !.pre = Core(s)]

\* History after a line that is neither an executed edit nor an UNDO that
\* continues a run of UNDOs.
HistOther(s) ==
    [s EXCEPT !.phase = "other", !.nUndo = 0, !.sumW = 0, !.hist = <<>>]

\* History after an executed edit that created the Action a.
HistEdit(s, a) ==
    IF s.phase = "mut"
    THEN [s EXCEPT !.nMut = @ + 1, !.sumW = @ + a.weight, !.lastAct = a,
                   !.hist = Append(@, s.pre.current)]
    ELSE [HistOther(s) EXCEPT !.nMut = @ + 1, !.lastAct = a]

\* History after an UNDO command processed in the Active state.
HistUndo(s) ==
    IF s.phase \in {"mut", "undo"} /\ s.nUndo < s.nMut
    THEN [s EXCEPT !.phase = "undo", !.nUndo = @ + 1]
    ELSE HistOther(s)

(* --------------------------- main: the handlers ------------------------ *)
\* The character a REPLACE token stands for: its first one, '\0' if empty.
FirstChar(tok) == IF tok = <<>> THEN "NUL" ELSE tok[1]

\* The loop of REPLACE: every findc of cur becomes repc.
ReplaceAll(cur, findc, repc) ==
    [i \in 1..Len(cur) |-> IF cur[i] = findc THEN repc ELSE cur[i]]

\* The count of the loop of REPLACE: the positions of cur holding findc.
CountChar(cur, findc) == Cardinality({i \in 1..Len(cur) : cur[i] = findc})

\* Faulty variant of CREATE: redoStack.clear() is missing.
DoCreateKeepsRedo(s, args) ==
    IF Len(args) < 3 THEN HistOther(s)
    ELSE LET r == Stoi(args[2])
         IN  IF ~r.ok THEN [HistOther(s) EXCEPT !.pc = "terminated"]
             ELSE LET s1 == [s EXCEPT !.maxWeight = r.val, !.current = args[3]]
                      s2 == WeightedUndoStack_clear(s1)
                      s3 == setMaxWeight(s2, s2.maxWeight)
                  IN  [s3 EXCEPT !.created = TRUE, !.phase = "mut", !.nMut = 0,
                                 !.nUndo = 0, !.sumW = 0, !.initText = args[3],
                                 !.pre = InitCore, !.hist = <<>>]

\* CREATE (lines 154-163).  std::stoi throws before anything is assigned;
\* nothing catches it, so the process terminates.
DoCreate(s, args) ==
    IF Len(args) < 3 THEN HistOther(s)
    ELSE LET r == Stoi(args[2])
         IN  IF ~r.ok THEN [HistOther(s) EXCEPT !.pc = "terminated"]
             ELSE LET s1 == [s EXCEPT !.maxWeight = r.val, !.current = args[3]]
                      s2 == RedoStack_clear(WeightedUndoStack_clear(s1))
                      s3 == setMaxWeight(s2, s2.maxWeight)
                  IN  [s3 EXCEPT !.created = TRUE, !.phase = "mut", !.nMut = 0,
                                 !.nUndo = 0, !.sumW = 0, !.initText = args[3],
                                 !.pre = InitCore, !.hist = <<>>]

\* Faulty variant of APPEND: the Redo List is not cleared.
DoAppendKeepsRedo(s, args) ==
    IF Len(args) < 2 THEN HistOther(s)
    ELSE LET add == args[2]
             cur == s.current \o add
             a   == Action(s.current, cur, Len(add), s.nMut + 1)
             s1  == WeightedUndoStack_push([s EXCEPT !.current = cur], a)
         IN  HistEdit(s1, a)

\* APPEND (lines 167-179)
DoAppend(s, args) ==
    IF Len(args) < 2 THEN HistOther(s)
    ELSE LET add == args[2]
             cur == s.current \o add
             a   == Action(s.current, cur, Len(add), s.nMut + 1)
             s1  == WeightedUndoStack_push([s EXCEPT !.current = cur], a)
         IN  HistEdit(RedoStack_clear(s1), a)

\* Faulty variant of REPLACE: a.prev is taken after the loop has run.
DoReplaceRecordsAfter(s, args) ==
    IF Len(args) < 3 THEN HistOther(s)
    ELSE LET findc == FirstChar(args[2])
             repc  == FirstChar(args[3])
             cur   == ReplaceAll(s.current, findc, repc)
             a     == Action(cur, cur, CountChar(s.current, findc), s.nMut + 1)
             s1    == WeightedUndoStack_push([s EXCEPT !.current = cur], a)
         IN  HistEdit(RedoStack_clear(s1), a)

\* REPLACE (lines 180-199)
DoReplace(s, args) ==
    IF Len(args) < 3 THEN HistOther(s)
    ELSE LET findc == FirstChar(args[2])
             repc  == FirstChar(args[3])
             cur   == ReplaceAll(s.current, findc, repc)
             a     == Action(s.current, cur, CountChar(s.current, findc),
                             s.nMut + 1)
             s1    == WeightedUndoStack_push([s EXCEPT !.current = cur], a)
         IN  HistEdit(RedoStack_clear(s1), a)

\* Faulty variant of DELETE: the weight is the number of characters kept.
DoDeleteWeighsKept(s, args) ==
    IF Len(args) < 2 THEN HistOther(s)
    ELSE LET r == Stoi(args[2])
         IN  IF ~r.ok THEN [HistOther(s) EXCEPT !.pc = "terminated"]
             ELSE LET size == Len(s.current)
                      i0   == IF r.val < 0 THEN 0 ELSE r.val
                      idx  == IF i0 > size THEN size ELSE i0
                      cur  == SubSeq(s.current, 1, idx)
                      a    == Action(s.current, cur, idx, s.nMut + 1)
                      s1   == WeightedUndoStack_push([s EXCEPT !.current = cur], a)
                  IN  HistEdit(RedoStack_clear(s1), a)

\* DELETE (lines 200-215)
DoDelete(s, args) ==
    IF Len(args) < 2 THEN HistOther(s)
    ELSE LET r == Stoi(args[2])
         IN  IF ~r.ok THEN [HistOther(s) EXCEPT !.pc = "terminated"]
             ELSE LET size == Len(s.current)
                      i0   == IF r.val < 0 THEN 0 ELSE r.val
                      idx  == IF i0 > size THEN size ELSE i0
                      cur  == SubSeq(s.current, 1, idx)
                      a    == Action(s.current, cur, size - idx, s.nMut + 1)
                      s1   == WeightedUndoStack_push([s EXCEPT !.current = cur], a)
                  IN  HistEdit(RedoStack_clear(s1), a)

\* Faulty variant of UNDO: on an empty Undo List it prints REDO's message.
DoUndoWrongMessage(s) ==
    IF WeightedUndoStack_empty(s)
    THEN HistUndo([s EXCEPT !.out = [kind |-> "error",
                                     msg |-> "Error: Nothing to redo.",
                                     buf |-> <<>>]])
    ELSE LET p  == WeightedUndoStack_pop(s)
             s1 == [p.st EXCEPT !.current = p.a.prev]
         IN  HistUndo([RedoStack_push(s1, p.a) EXCEPT !.lastAct = p.a])

\* Faulty variant of UNDO: the Action is copied to the Redo List and stays
\* on the Undo List.
DoUndoCopies(s) ==
    IF WeightedUndoStack_empty(s)
    THEN HistUndo([s EXCEPT !.out = [kind |-> "error",
                                     msg |-> "Error: Nothing to undo.",
                                     buf |-> <<>>]])
    ELSE LET a  == s.undoStack[Len(s.undoStack)]
             s1 == [s EXCEPT !.current = a.prev]
         IN  HistUndo([RedoStack_push(s1, a) EXCEPT !.lastAct = a])

\* Faulty variant of UNDO: the buffer is not restored.
DoUndoKeepsBuffer(s) ==
    IF WeightedUndoStack_empty(s)
    THEN HistUndo([s EXCEPT !.out = [kind |-> "error",
                                     msg |-> "Error: Nothing to undo.",
                                     buf |-> <<>>]])
    ELSE LET p == WeightedUndoStack_pop(s)
         IN  HistUndo([RedoStack_push(p.st, p.a) EXCEPT !.lastAct = p.a])

\* UNDO (lines 216-225)
DoUndo(s) ==
    IF WeightedUndoStack_empty(s)
    THEN HistUndo([s EXCEPT !.out = [kind |-> "error",
                                     msg |-> "Error: Nothing to undo.",
                                     buf |-> <<>>]])
    ELSE LET p  == WeightedUndoStack_pop(s)
             s1 == [p.st EXCEPT !.current = p.a.prev]
         IN  HistUndo([RedoStack_push(s1, p.a) EXCEPT !.lastAct = p.a])

\* Faulty variant of REDO: the buffer is set to the Action's prev text.
DoRedoWrongText(s) ==
    IF RedoStack_empty(s)
    THEN HistOther([s EXCEPT !.out = [kind |-> "error",
                                      msg |-> "Error: Nothing to redo.",
                                      buf |-> <<>>]])
    ELSE LET p  == RedoStack_pop(s)
             s1 == [p.st EXCEPT !.current = p.a.prev]
         IN  HistOther([WeightedUndoStack_push(s1, p.a) EXCEPT !.lastAct = p.a])

\* REDO (lines 226-235)
DoRedo(s) ==
    IF RedoStack_empty(s)
    THEN HistOther([s EXCEPT !.out = [kind |-> "error",
                                      msg |-> "Error: Nothing to redo.",
                                      buf |-> <<>>]])
    ELSE LET p  == RedoStack_pop(s)
             s1 == [p.st EXCEPT !.current = p.a.next]
         IN  HistOther([WeightedUndoStack_push(s1, p.a) EXCEPT !.lastAct = p.a])

\* PRINT (lines 236-238)
DoPrint(s) ==
    HistOther([s EXCEPT !.out = [kind |-> "print", msg |-> "",
                                 buf |-> s.current]])

\* Faulty variant of the loop body: no `created` guard before the handlers.
ExecNoGuard(s, args) ==
    LET b == Begin(s, args)
        command == Cmd(args)
    IN  IF args = <<>> THEN HistOther(b)
        ELSE IF command = "CREATE" THEN DoCreate(b, args)
        ELSE IF command = "APPEND" THEN DoAppend(b, args)
        ELSE IF command = "REPLACE" THEN DoReplace(b, args)
        ELSE IF command = "DELETE" THEN DoDelete(b, args)
        ELSE IF command = "UNDO" THEN DoUndo(b)
        ELSE IF command = "REDO" THEN DoRedo(b)
        ELSE IF command = "PRINT" THEN DoPrint(b)
        ELSE HistOther(b)

\* One iteration of main's while loop (lines 146-239) on the tokens args.
Exec(s, args) ==
    LET b == Begin(s, args)
        command == Cmd(args)
    IN  IF args = <<>> THEN HistOther(b)
        ELSE IF command = "CREATE" THEN DoCreate(b, args)
        ELSE IF ~b.created THEN HistOther(b)
        ELSE IF command = "APPEND" THEN DoAppend(b, args)
        ELSE IF command = "REPLACE" THEN DoReplace(b, args)
        ELSE IF command = "DELETE" THEN DoDelete(b, args)
        ELSE IF command = "UNDO" THEN DoUndo(b)
        ELSE IF command = "REDO" THEN DoRedo(b)
        ELSE IF command = "PRINT" THEN DoPrint(b)
        ELSE HistOther(b)

(* ------------------------------ the inputs ----------------------------- *)
\* Capacity tokens of CREATE: 0, 1, 2 and a negative one.
CapTokens == {<<"0">>, <<"1">>, <<"2">>, <<"-", "1">>}

\* Tokens std::stoi is given where an integer is expected but none is
\* written: no digit at all, and a digit followed by a letter.
BadTokens == {<<"x">>, <<"2", "x">>}

\* Index tokens of DELETE: negative, inside the buffer, beyond it.
IdxTokens == {<<"-", "1">>, <<"1">>, <<"9">>}

InitTexts == {<<"a">>, <<"a", "b">>}

AddTexts == {<<"b">>, <<"a", "a">>}

CreateLines ==
    {<<"CREATE", c, t>> : c \in CapTokens, t \in InitTexts}
        \cup {<<"CREATE", c, <<"a">>>> : c \in BadTokens}
        \cup {<<"CREATE">>, <<"CREATE", <<"1">>>>}

AppendLines == {<<"APPEND", t>> : t \in AddTexts} \cup {<<"APPEND">>}

ReplaceLines ==
    {<<"REPLACE", <<"a">>, <<"b">>>>, <<"REPLACE", <<"b">>, <<"a">>>>,
     <<"REPLACE", <<"a">>>>}

DeleteLines ==
    {<<"DELETE", i>> : i \in IdxTokens \cup BadTokens} \cup {<<"DELETE">>}

\* Lines main has no branch for: no token at all, an unknown command.
OtherLines == {<<>>, <<"NOP">>}

Lines ==
    CreateLines \cup AppendLines \cup ReplaceLines \cup DeleteLines
        \cup {<<"UNDO">>, <<"REDO">>, <<"PRINT">>} \cup OtherLines

\* Whether the line reaches the body of an edit handler in state s.
ExecutesEdit(s, args) ==
    /\ s.created
    /\ \/ Cmd(args) = "APPEND" /\ Len(args) >= 2
       \/ Cmd(args) = "REPLACE" /\ Len(args) >= 3
       \/ Cmd(args) = "DELETE" /\ Len(args) >= 2 /\ Stoi(args[2]).ok

\* The bound of the model: at most MaxEdits edits after a CREATE (which
\* also bounds the length of the buffer).
InBounds(s, args) == ExecutesEdit(s, args) => s.nMut < MaxEdits

(* --------------------------- the state machine ------------------------- *)
InitState ==
    [current |-> <<>>, created |-> FALSE, maxWeight |-> 0, undoStack |-> <<>>,
     totalWeight_ |-> 0, maxWeight_ |-> 0, redoStack |-> <<>>,
     pc |-> "running", out |-> NoOut, line |-> <<>>, lastAct |-> NoAct,
     evicted |-> {}, clamped |-> FALSE, cleared |-> 0, pre |-> InitCore, nMut |-> 0, initText |-> <<>>,
     phase |-> "other", nUndo |-> 0, sumW |-> 0, hist |-> <<>>]

\* The current state as a record.
S ==
    [current |-> current, created |-> created, maxWeight |-> maxWeight,
     undoStack |-> undoStack, totalWeight_ |-> totalWeight_,
     maxWeight_ |-> maxWeight_, redoStack |-> redoStack, pc |-> pc,
     out |-> out, line |-> line, lastAct |-> lastAct, evicted |-> evicted,
     clamped |-> clamped, cleared |-> cleared, hist |-> hist,
     pre |-> pre, nMut |-> nMut, initText |-> initText, phase |-> phase,
     nUndo |-> nUndo, sumW |-> sumW]

\* The next state is the record r.
Becomes(r) ==
    /\ current' = r.current
    /\ created' = r.created
    /\ maxWeight' = r.maxWeight
    /\ undoStack' = r.undoStack
    /\ totalWeight_' = r.totalWeight_
    /\ maxWeight_' = r.maxWeight_
    /\ redoStack' = r.redoStack
    /\ pc' = r.pc
    /\ out' = r.out
    /\ line' = r.line
    /\ lastAct' = r.lastAct
    /\ evicted' = r.evicted
    /\ clamped' = r.clamped
    /\ cleared' = r.cleared
    /\ hist' = r.hist
    /\ pre' = r.pre
    /\ nMut' = r.nMut
    /\ initText' = r.initText
    /\ phase' = r.phase
    /\ nUndo' = r.nUndo
    /\ sumW' = r.sumW

Init ==
    /\ current = InitState.current
    /\ created = InitState.created
    /\ maxWeight = InitState.maxWeight
    /\ undoStack = InitState.undoStack
    /\ totalWeight_ = InitState.totalWeight_
    /\ maxWeight_ = InitState.maxWeight_
    /\ redoStack = InitState.redoStack
    /\ pc = InitState.pc
    /\ out = InitState.out
    /\ line = InitState.line
    /\ lastAct = InitState.lastAct
    /\ evicted = InitState.evicted
    /\ clamped = InitState.clamped
    /\ cleared = InitState.cleared
    /\ hist = InitState.hist
    /\ pre = InitState.pre
    /\ nMut = InitState.nMut
    /\ initText = InitState.initText
    /\ phase = InitState.phase
    /\ nUndo = InitState.nUndo
    /\ sumW = InitState.sumW

\* Each action: std::getline delivers one line, whose tokens are args, and
\* the loop body runs on it (lines 146-239).

\* A CREATE line, well-formed or not.
CreateLine ==
    \E args \in CreateLines :
        /\ pc = "running"
        /\ InBounds(S, args)
        /\ Becomes(Exec(S, args))

\* An APPEND line.
AppendLine ==
    \E args \in AppendLines :
        /\ pc = "running"
        /\ InBounds(S, args)
        /\ Becomes(Exec(S, args))

\* A REPLACE line.
ReplaceLine ==
    \E args \in ReplaceLines :
        /\ pc = "running"
        /\ InBounds(S, args)
        /\ Becomes(Exec(S, args))

\* A DELETE line.
DeleteLine ==
    \E args \in DeleteLines :
        /\ pc = "running"
        /\ InBounds(S, args)
        /\ Becomes(Exec(S, args))

\* An UNDO line.
UndoLine ==
    /\ pc = "running"
    /\ InBounds(S, <<"UNDO">>)
    /\ Becomes(Exec(S, <<"UNDO">>))

\* A REDO line.
RedoLine ==
    /\ pc = "running"
    /\ InBounds(S, <<"REDO">>)
    /\ Becomes(Exec(S, <<"REDO">>))

\* A PRINT line.
PrintLine ==
    /\ pc = "running"
    /\ InBounds(S, <<"PRINT">>)
    /\ Becomes(Exec(S, <<"PRINT">>))

\* An empty line or an unknown command.
OtherLine ==
    \E args \in OtherLines :
        /\ pc = "running"
        /\ InBounds(S, args)
        /\ Becomes(Exec(S, args))

Next ==
    \/ CreateLine
    \/ AppendLine
    \/ ReplaceLine
    \/ DeleteLine
    \/ UndoLine
    \/ RedoLine
    \/ PrintLine
    \/ OtherLine

Spec == Init /\ [][Next]_vars

(* ============================== properties ============================= *)
\* Sum of the weights of the Actions of a list.
RECURSIVE SumWeights(_)
SumWeights(q) == IF q = <<>> THEN 0 ELSE Head(q).weight + SumWeights(Tail(q))

\* The newest Action of the Undo List (top_).
Top == undoStack[Len(undoStack)]

\* C1: in every reachable state the Undo List's totalWeight is at most its
\* maxWeight, and maxWeight is max(capacity, 0) for the capacity of the most
\* recent CREATE (0 before any CREATE).
C1_TotalWithinMax ==
    /\ totalWeight_ <= maxWeight_
    /\ maxWeight_ = (IF maxWeight < 0 THEN 0 ELSE maxWeight)

\* C1 witness: a push went over the cap, trim evicted an older Action and
\* the list it left is non-empty and exactly at a positive cap.
C1_Witness ==
    /\ evicted # {}
    /\ undoStack # <<>>
    /\ maxWeight_ > 0
    /\ totalWeight_ = maxWeight_

\* C2: in every reachable state the cached totalWeight equals the sum of the
\* weights of the Actions in the Undo List and is not negative, and no pop or
\* trim ever had a negative value to clamp.
C2_TotalIsSum ==
    /\ totalWeight_ = SumWeights(undoStack)
    /\ totalWeight_ >= 0
    /\ ~clamped

\* C2 witness: an UNDO popped an Action of positive weight and left a list
\* whose total is still positive.
C2_Witness ==
    /\ MovedBy(S) = "UNDO"
    /\ lastAct.weight > 0
    /\ undoStack # <<>>
    /\ totalWeight_ > 0

\* C3: in every Active state with a non-empty Undo List the buffer is the
\* `after` text of the newest Action; and right after a successful UNDO the
\* buffer is the `before` text of the Action that UNDO put on the Redo List.
C3_BufferMatchesHistory ==
    /\ created /\ undoStack # <<>> => current = Top.next
    /\ MovedBy(S) = "UNDO" =>
           /\ redoStack # <<>>
           /\ current = Head(redoStack).prev

\* C3 witness: a successful UNDO that changed the buffer and left an older
\* Action on the Undo List.
C3_Witness ==
    /\ MovedBy(S) = "UNDO"
    /\ undoStack # <<>>
    /\ current # pre.current

\* max(capacity, 0) for the capacity of the most recent CREATE.
Cap == IF maxWeight < 0 THEN 0 ELSE maxWeight

\* n executed edits right after a CREATE, then exactly n UNDO commands.
EditsAllUndone == phase = "undo" /\ nUndo = nMut

\* C4 as stated: after n edits issued right after a CREATE and n UNDO
\* commands the buffer is the text of that CREATE, for every capacity.
C4_UndoAllRestoresInitial == EditsAllUndone => current = initText

\* C4 as amended: after n edits issued right after a CREATE whose weights sum
\* to at most max(capacity, 0), followed by n UNDO commands, the buffer is
\* the text of that CREATE.
C4_UndoAllWithinCapRestoresInitial ==
    EditsAllUndone /\ sumW <= Cap => current = initText

\* C4 witness: two edits of positive total weight within the cap, both
\* undone.
C4_Witness ==
    /\ EditsAllUndone
    /\ nMut = 2
    /\ sumW > 0
    /\ sumW <= Cap
    /\ Len(redoStack) = 2

\* The fields of the program proper (no history).
prog ==
    <<current, created, maxWeight, undoStack, totalWeight_, maxWeight_,
      redoStack>>

\* C5 as stated: UNDO and then REDO, from an Active state, leave the buffer
\* as it was before the UNDO unless the REDO's push evicted the Action it
\* pushed; and with capacity 0 every such REDO that pushes evicts it.
C5_UndoRedoKeepsBufferUnlessEvicted ==
    [][(pre.created /\ line = <<"UNDO">> /\ line' = <<"REDO">>) =>
          /\ current' = pre.current \/ lastAct'.id \in evicted'
          /\ maxWeight_ = 0 /\ lastAct' # NoAct => lastAct'.id \in evicted'
      ]_vars

\* C5 as amended: a successful UNDO and then REDO leave the buffer as it was
\* before the UNDO, and the REDO pushes back the undone Action without
\* evicting anything, whatever the capacity (0 included).
C5_UndoRedoKeepsBuffer ==
    [][(MovedBy(S) = "UNDO" /\ line' = <<"REDO">>) =>
          /\ current' = pre.current
          /\ lastAct' = lastAct
          /\ evicted' = {}
      ]_vars

\* C5 witness: a REDO right after a successful UNDO, which changed the
\* buffer back.
C5_Witness ==
    /\ line = <<"REDO">>
    /\ pre.cmd = "UNDO"
    /\ lastAct # NoAct
    /\ current # pre.current

\* The states one line leads to from the states of `from`, within the bound.
Successors(from) ==
    UNION {{Exec(s, args) : args \in {l \in Lines : InBounds(s, l)}} :
              s \in {f \in from : f.pc = "running"}}

\* Every state some sequence of lines leads to from the states of `seen`
\* (`frontier` being those of `seen` not yet expanded).
RECURSIVE ReachFrom(_, _)
ReachFrom(seen, frontier) ==
    IF frontier = {} THEN seen
    ELSE LET new == Successors(frontier) \ seen
         IN  ReachFrom(seen \cup new, new)

\* C6 as stated: some sequence of lines leads (from the start of the
\* program) to a state in which the push of a successful REDO made trim
\* remove at least one entry of the Undo List.
C6_RedoCanEvict ==
    S = InitState =>
        \E s \in ReachFrom({S}, {S}) : MovedBy(s) = "REDO" /\ s.evicted # {}

\* C6 as amended: a REDO never evicts.  After every successful REDO trim
\* has removed nothing and the Undo List is one entry longer than before.
C6_RedoNeverEvicts ==
    MovedBy(S) = "REDO" =>
        /\ evicted = {}
        /\ Len(undoStack) = Len(pre.undoStack) + 1

\* C6 witness: a REDO whose push filled the Undo List exactly to its cap,
\* on top of an older entry.
C6_Witness ==
    /\ MovedBy(S) = "REDO"
    /\ lastAct.weight > 0
    /\ Len(undoStack) >= 2
    /\ totalWeight_ = maxWeight_

EditCmds == {"APPEND", "REPLACE", "DELETE"}

UndoError == [kind |-> "error", msg |-> "Error: Nothing to undo.", buf |-> <<>>]

RedoError == [kind |-> "error", msg |-> "Error: Nothing to redo.", buf |-> <<>>]

\* C7: every well-formed APPEND, REPLACE or DELETE processed in the Active
\* state leaves the Redo List empty, and a REDO issued right after it prints
\* "Error: Nothing to redo." and changes nothing.
C7_EditClearsRedo ==
    [][/\ ExecutesEdit(S, line') => redoStack' = <<>>
       /\ (MovedBy(S) \in EditCmds /\ line' = <<"REDO">>) =>
              /\ out' = RedoError
              /\ UNCHANGED prog
      ]_vars

\* C7 witness: an edit has just been processed in a state whose Redo List
\* was not empty (a REDO would have succeeded), and the Redo List is empty.
C7_Witness ==
    /\ MovedBy(S) \in EditCmds
    /\ pre.redoStack # <<>>
    /\ redoStack = <<>>

\* The last line was an edit whose Action weighs more than the cap.
EditOverCap == MovedBy(S) \in EditCmds /\ lastAct.weight > maxWeight_

\* C8: after an edit whose Action alone weighs more than maxWeight the Undo
\* List is empty with totalWeight 0 and the buffer holds the edited text;
\* an UNDO issued next prints "Error: Nothing to undo." and leaves the
\* buffer unchanged.
C8_OverweightEditLeavesNoUndo ==
    /\ [](EditOverCap =>
            /\ undoStack = <<>>
            /\ totalWeight_ = 0
            /\ lastAct.prev = pre.current
            /\ current = lastAct.next)
    /\ [][(EditOverCap /\ line' = <<"UNDO">>) =>
              /\ out' = UndoError
              /\ current' = current
         ]_vars

\* C8 witness: an overweight edit changed the buffer and the push emptied
\* an Undo List that held an older Action.
C8_Witness ==
    /\ EditOverCap
    /\ pre.undoStack # <<>>
    /\ current # pre.current
    /\ undoStack = <<>>

\* A token without any digit where std::stoi is to read an integer.
NoDigit(tok) == \A i \in 1..Len(tok) : ~IsDigit(tok[i])

\* A malformed line: a command with too few arguments, or a CREATE or DELETE
\* whose integer argument is not a number.
Malformed(args) ==
    \/ Cmd(args) = "CREATE" /\ (Len(args) < 3 \/ NoDigit(args[2]))
    \/ Cmd(args) = "APPEND" /\ Len(args) < 2
    \/ Cmd(args) = "REPLACE" /\ Len(args) < 3
    \/ Cmd(args) = "DELETE" /\ (Len(args) < 2 \/ NoDigit(args[2]))

\* C9: a malformed line is skipped: the program keeps running, prints
\* nothing and leaves buffer, both lists, the cap and `created` unchanged.
C9_MalformedLineSkipped ==
    [][Malformed(line') =>
          /\ pc' = "running"
          /\ out' = NoOut
          /\ UNCHANGED prog
      ]_vars

\* C10: in the Active state an UNDO on an empty Undo List, and a REDO on an
\* empty Redo List, only print their error message: buffer, both lists,
\* totalWeight and the caps are unchanged and the program keeps running as
\* an Active session.
C10_FailedUndoRedoChangeNothing ==
    [][/\ (created /\ line' = <<"UNDO">> /\ undoStack = <<>>) =>
              /\ out' = UndoError
              /\ UNCHANGED prog
              /\ pc' = "running"
       /\ (created /\ line' = <<"REDO">> /\ redoStack = <<>>) =>
              /\ out' = RedoError
              /\ UNCHANGED prog
              /\ pc' = "running"
      ]_vars

\* C10 witness: an UNDO has just failed in an Active session whose Redo
\* List holds an Action.
C10_Witness ==
    /\ created
    /\ line = <<"UNDO">>
    /\ out = UndoError
    /\ redoStack # <<>>

\* A CREATE line whose body runs: three tokens, the second an integer.
CreateRuns(args) ==
    Cmd(args) = "CREATE" /\ Len(args) >= 3 /\ Stoi(args[2]).ok

\* The capacity a CREATE line gives.
Capacity(args) == Stoi(args[2]).val

\* C11: CREATE with capacity c and text t, in any state, yields buffer = t,
\* an empty Undo List with totalWeight 0 and maxWeight = max(c, 0), an empty
\* Redo List and an Active session; UNDO and REDO issued right after it fail.
C11_CreateResets ==
    [][/\ CreateRuns(line') =>
              /\ current' = line'[3]
              /\ undoStack' = <<>>
              /\ totalWeight_' = 0
              /\ maxWeight_' = (IF Capacity(line') < 0 THEN 0 ELSE Capacity(line'))
              /\ redoStack' = <<>>
              /\ created'
              /\ pc' = "running"
       /\ (CreateRuns(line) /\ line' = <<"UNDO">>) =>
              out' = UndoError /\ UNCHANGED prog
       /\ (CreateRuns(line) /\ line' = <<"REDO">>) =>
              out' = RedoError /\ UNCHANGED prog
      ]_vars

\* C11 witness: a CREATE with a negative capacity has just reset an Active
\* session whose lists held two Actions.
C11_Witness ==
    /\ CreateRuns(line)
    /\ Capacity(line) < 0
    /\ cleared = 2
    /\ maxWeight_ = 0

\* The commands other than CREATE that main has a branch for.
LaterCmds == {"APPEND", "REPLACE", "DELETE", "UNDO", "REDO", "PRINT"}

\* C12: before any CREATE every APPEND, REPLACE, DELETE, UNDO, REDO and
\* PRINT line changes nothing and prints nothing (no error message either).
C12_IgnoredBeforeCreate ==
    [][(~created /\ Cmd(line') \in LaterCmds) =>
          /\ UNCHANGED prog
          /\ out' = NoOut
          /\ pc' = "running"
      ]_vars

\* C12 witness: a DELETE whose index is not a number has been read before
\* any CREATE, and the program is running.
C12_Witness ==
    /\ ~created
    /\ line = <<"DELETE", <<"x">>>>
    /\ pc = "running"

\* The ids of the Actions of a list, in order.
Ids(q) == [i \in 1..Len(q) |-> q[i].id]

\* C13: no Action (identified by the edit that created it) is in both lists
\* and none occurs twice in a list: the ids of the entries of the Undo List
\* and the Redo List are pairwise different.
C13_ActionInOneListOnce ==
    LET ids == Ids(undoStack) \o Ids(redoStack)
    IN  \A i, j \in 1..Len(ids) : ids[i] = ids[j] => i = j

\* C13 witness: both lists hold an Action and the last line, an UNDO or a
\* REDO, moved one between them.
C13_Witness ==
    /\ undoStack # <<>>
    /\ redoStack # <<>>
    /\ MovedBy(S) \in {"UNDO", "REDO"}

\* A DELETE line whose body runs to the end: an index that is an integer.
DeleteRuns(args) ==
    Cmd(args) = "DELETE" /\ Len(args) >= 2 /\ Stoi(args[2]).ok

\* The index i moved into [0, n].
Clamp(i, n) == IF i < 0 THEN 0 ELSE IF i > n THEN n ELSE i

\* C14: DELETE with index i truncates the buffer to its first clamp(i)
\* characters and records an Action of weight (old length - clamp(i)); an
\* index at or beyond the length leaves the buffer as it is, and still
\* pushes a weight-0 Action on the Undo List and clears the Redo List.
C14_DeleteClampsAndTruncates ==
    [][(created /\ DeleteRuns(line')) =>
          LET i == Clamp(Stoi(line'[2]).val, Len(current))
          IN  /\ current' = SubSeq(current, 1, i)
              /\ lastAct'.prev = current
              /\ lastAct'.next = current'
              /\ lastAct'.weight = Len(current) - i
              /\ redoStack' = <<>>
              /\ Stoi(line'[2]).val >= Len(current) =>
                     /\ current' = current
                     /\ lastAct'.weight = 0
                     /\ undoStack' = Append(undoStack, lastAct')
      ]_vars

\* C14 witness: a DELETE beyond the end of the buffer left the buffer as it
\* was, pushed a weight-0 Action on the Undo List and cleared a non-empty
\* Redo List.
C14_Witness ==
    /\ line = <<"DELETE", <<"9">>>>
    /\ lastAct.weight = 0
    /\ current = pre.current
    /\ Top = lastAct
    /\ cleared > 0

\* C15: the Redo List is LIFO and changes one entry at a time: a successful
\* UNDO puts exactly the undone Action (the newest of the Undo List) on top,
\* a successful REDO takes exactly the top Action off and sets the buffer to
\* its `after`; a failing UNDO or REDO leaves the Redo List as it is.
C15_RedoListLifo ==
    [][/\ (created /\ line' = <<"UNDO">>) =>
              redoStack' = (IF undoStack = <<>> THEN redoStack
                            ELSE <<Top>> \o redoStack)
       /\ (created /\ line' = <<"REDO">>) =>
              IF redoStack = <<>> THEN redoStack' = <<>>
              ELSE /\ redoStack' = Tail(redoStack)
                   /\ lastAct' = Head(redoStack)
                   /\ current' = Head(redoStack).next
      ]_vars

\* C15 witness: two Actions were undone and a REDO took the one undone last
\* off the Redo List, leaving the other.
C15_Witness ==
    /\ MovedBy(S) = "REDO"
    /\ Len(pre.redoStack) = 2
    /\ redoStack = Tail(pre.redoStack)
    /\ lastAct.id < redoStack[1].id

\* The k newest entries of a list kept oldest first.
Suffix(q, k) == SubSeq(q, Len(q) - k + 1, Len(q))

\* The longest newest-end suffix of q whose weights sum to at most m.
LongestSuffixWithin(q, m) ==
    LET ks == {k \in 0..Len(q) : SumWeights(Suffix(q, k)) <= m}
    IN  Suffix(q, CHOOSE k \in ks : \A j \in ks : j <= k)

\* C16: after every push on the Undo List (by an edit or a REDO) the list is
\* the longest newest-end suffix, within maxWeight, of the list before the
\* push with the pushed Action added, and trim has deleted exactly the
\* entries older than that suffix; after the setMaxWeight of a CREATE the
\* same holds of the (cleared) list.
C16_TrimKeepsLongestSuffix ==
    [][/\ (lastAct' # NoAct /\ Cmd(line') \in EditCmds \cup {"REDO"}) =>
              LET q    == Append(undoStack, lastAct')
                  kept == LongestSuffixWithin(q, maxWeight_')
              IN  /\ undoStack' = kept
                  /\ evicted' = {q[i].id : i \in 1..(Len(q) - Len(kept))}
       /\ CreateRuns(line') =>
              /\ undoStack' = LongestSuffixWithin(<<>>, maxWeight_')
              /\ evicted' = {}
      ]_vars

\* C16 witness: an edit pushed onto a list of one Action, trim deleted that
\* older Action and kept the new one.
C16_Witness ==
    /\ MovedBy(S) \in EditCmds
    /\ Len(pre.undoStack) = 1
    /\ evicted = {pre.undoStack[1].id}
    /\ undoStack = <<lastAct>>

\* C17: in every reachable state totalWeight plus the weights of the Actions
\* on the Redo List is at most maxWeight; and after a successful REDO the
\* Undo List is what it was before with the re-pushed Action added as the
\* newest, nothing having been evicted.
C17_UndoPlusRedoWithinMax ==
    /\ totalWeight_ + SumWeights(redoStack) <= maxWeight_
    /\ MovedBy(S) = "REDO" =>
           /\ undoStack = Append(pre.undoStack, lastAct)
           /\ evicted = {}

\* C17 witness: Actions of positive weight wait on both lists and together
\* they fill the cap exactly.
C17_Witness ==
    /\ totalWeight_ > 0
    /\ SumWeights(redoStack) > 0
    /\ totalWeight_ + SumWeights(redoStack) = maxWeight_

\* C18: the stored history is a chain of buffer values: of two adjacent
\* Undo List entries the older one's `after` is the newer one's `before`;
\* the top of a non-empty Redo List has the buffer as its `before`; of two
\* adjacent Redo List entries the one undone later has as its `after` the
\* other one's `before`.
C18_HistoryIsChain ==
    /\ \A i \in 1..(Len(undoStack) - 1) :
           undoStack[i].next = undoStack[i + 1].prev
    /\ redoStack # <<>> => Head(redoStack).prev = current
    /\ \A i \in 1..(Len(redoStack) - 1) :
           redoStack[i].next = redoStack[i + 1].prev

\* C18 witness: two edits that each changed the buffer wait on the Redo
\* List.
C18_Witness ==
    /\ Len(redoStack) = 2
    /\ redoStack[1].prev # redoStack[1].next
    /\ redoStack[2].prev # redoStack[2].next

\* C19: a successful UNDO immediately followed by REDO leaves the buffer,
\* the Undo List (its Actions, their order, totalWeight) and the Redo List
\* as they were before the UNDO; and a successful REDO immediately followed
\* by UNDO leaves them as they were before the REDO.
C19_UndoRedoRoundTrip ==
    [][(\/ MovedBy(S) = "UNDO" /\ line' = <<"REDO">>
        \/ MovedBy(S) = "REDO" /\ line' = <<"UNDO">>) =>
           /\ current' = pre.current
           /\ undoStack' = pre.undoStack
           /\ totalWeight_' = pre.totalWeight_
           /\ redoStack' = pre.redoStack
           /\ maxWeight_' = pre.maxWeight_
      ]_vars

\* C19 witness: a REDO of a buffer-changing Action was undone again while
\* an older Action stayed on the Undo List.
C19_Witness ==
    /\ line = <<"UNDO">>
    /\ pre.cmd = "REDO"
    /\ lastAct # NoAct
    /\ lastAct.prev # lastAct.next
    /\ undoStack # <<>>
    /\ redoStack = <<lastAct>>

\* C20: while the edits issued right after a CREATE have weights that sum to
\* at most max(capacity, 0), none of their Actions is evicted; each of the
\* UNDO commands that follow (as many as there were edits) succeeds; the
\* buffer after the k-th of them is the buffer as it was before the
\* (n-k+1)-th edit; and after the n-th the buffer is the text of the CREATE
\* and the Undo List is empty.
C20_BoundedHistory ==
    (phase \in {"mut", "undo"} /\ sumW <= Cap) =>
        /\ evicted = {}
        /\ Len(undoStack) = nMut - nUndo
        /\ Len(redoStack) = nUndo
        /\ phase = "undo" =>
               /\ lastAct # NoAct
               /\ out.kind # "error"
               /\ current = hist[nMut - nUndo + 1]
        /\ (phase = "undo" /\ nUndo = nMut) =>
               /\ current = initText
               /\ undoStack = <<>>

\* C20 witness: the second of two edits of positive total weight within the
\* cap has been undone and the first one has not.
C20_Witness ==
    /\ phase = "undo"
    /\ nMut = 2
    /\ nUndo = 1
    /\ sumW > 0
    /\ sumW <= Cap
    /\ current = hist[2]
    /\ current # initText

=============================================================================
